---- MODULE Spec2Model ----
(***************************************************************************)
(* Model of the MCP client glue of jupyter-ai's frontend:                  *)
(*   handler.ts        requestAPI, checkMcpAvailability, _hasMcp           *)
(*   mcp-service.ts    McpService.getServers/getCommands/executeCommand    *)
(*   slash autocompletion (types/mcp.d.ts, lines 160-197)  commands()      *)
(*   McpSettings view  (retrying variant, unnamed/part_000 lines 24-72)    *)
(*                                                                         *)
(* JavaScript values are records tagged by t; strings are TLA+ strings, so *)
(* concatenation, length and prefixes are computed, not assumed.           *)
(***************************************************************************)
EXTENDS Integers, Sequences, FiniteSets, TLC

VARIABLES
    _hasMcp,    \* handler.ts:6, the module-level availability flag
    chk,        \* one record per direct caller of checkMcpAvailability()
    build,      \* one record per run of autocompletion.commands()
    exec,       \* the run of McpService.executeCommand
    reqIn,      \* a requestAPI call: endpoint and what the server answers
    reqOut,     \* what that requestAPI call did
    view,       \* the mounted McpSettings component (retrying variant)
    svc,        \* a direct call of McpService.getServers or getCommands
    rr          \* a chat message, the result extracted from it and its rendering

vars == <<_hasMcp, chk, build, exec, reqIn, reqOut, view, svc, rr>>

---------------------------------------------------------------------------
(* Bounds *)

\* direct callers of checkMcpAvailability(), each calling once
NumCallers == 3
\* runs of autocompletion.commands()
NumBuilds == 2
\* fetch attempts of one mount of the settings view that the model follows
MaxAttempts == 6

---------------------------------------------------------------------------
(* JavaScript values *)

Undefined == [t |-> "undefined"]
Null == [t |-> "null"]
Bool(b) == [t |-> "bool", b |-> b]
Num(n) == [t |-> "num", n |-> n]
Str(s) == [t |-> "str", s |-> s]
Arr(items) == [t |-> "arr", items |-> items]
Obj(fields) == [t |-> "obj", fields |-> fields]

\* v.k does not throw (v is neither null nor undefined)
HasProps(v) == v.t \notin {"null", "undefined"}

\* v.k for a value that has properties
Prop(v, k) ==
    IF v.t = "obj" /\ k \in DOMAIN v.fields THEN v.fields[k] ELSE Undefined

\* ToBoolean
Truthy(v) ==
    CASE v.t = "undefined" -> FALSE
      [] v.t = "null" -> FALSE
      [] v.t = "bool" -> v.b
      [] v.t = "num" -> v.n # 0
      [] v.t = "str" -> v.s # ""
      [] OTHER -> TRUE

\* a || b
Or(a, b) == IF Truthy(a) THEN a ELSE b

RECURSIVE JoinStr(_, _)
\* ToString, as string concatenation and template literals apply it
ToStr(v) ==
    CASE v.t = "undefined" -> "undefined"
      [] v.t = "null" -> "null"
      [] v.t = "bool" -> (IF v.b THEN "true" ELSE "false")
      [] v.t = "num" -> ToString(v.n)
      [] v.t = "str" -> v.s
      [] v.t = "arr" -> JoinStr(v.items, 1)
      [] OTHER -> "[object Object]"

\* Array.prototype.join(","), from index i
JoinStr(items, i) ==
    IF i > Len(items) THEN ""
    ELSE LET e == items[i]
             head == IF e.t \in {"null", "undefined"} THEN "" ELSE ToStr(e)
         IN IF i = Len(items) THEN head
            ELSE head \o "," \o JoinStr(items, i + 1)

StartsWith(s, p) == Len(s) >= Len(p) /\ SubSeq(s, 1, Len(p)) = p

---------------------------------------------------------------------------
(* Response bodies: the texts the backend may send, and JSON.parse on them *)

SlashAsk == Obj([slash_id |-> Str("ask"), description |-> Str("Ask a question")])
SlashHelp == Obj([slash_id |-> Str("help"), description |-> Str("Show help")])

McpSearch == Obj([serverName |-> Str("search"), commandName |-> Str("query"),
                  description |-> Str("Search the web")])
McpSearchBare == Obj([serverName |-> Str("search"), commandName |-> Str("fetch")])
McpAskEmpty == Obj([serverName |-> Str("ask"), commandName |-> Str(""),
                    description |-> Str("")])
McpAlpha == Obj([serverName |-> Str("alpha"), commandName |-> Str("run"),
                 description |-> Str("Alpha tools")])

ResultText == Obj([type |-> Str("text"), content |-> Str("done")])
ResultImage == Obj([type |-> Str("image"), content |-> Str("aGVsbG8="),
                    mimeType |-> Str("image/png")])

\* the JSON texts of the model and the value each one denotes
JsonTable ==
    [text \in {"null", "0", "\"\"", "{}", "[]",
               "{\"message\":\"boom\"}", "{\"message\":\"\"}",
               "{\"slash_commands\":[]}", "{\"slash_commands\":[ask]}",
               "{\"slash_commands\":[help,ask]}",
               "[search]", "[search,searchBare]", "[ask]", "[search,alpha]",
               "{text}", "{image}"} |->
        CASE text = "null" -> Null
          [] text = "0" -> Num(0)
          [] text = "\"\"" -> Str("")
          [] text = "{}" -> Obj(<<>>)
          [] text = "[]" -> Arr(<<>>)
          [] text = "{\"message\":\"boom\"}" -> Obj([message |-> Str("boom")])
          [] text = "{\"message\":\"\"}" -> Obj([message |-> Str("")])
          [] text = "{\"slash_commands\":[]}" -> Obj([slash_commands |-> Arr(<<>>)])
          [] text = "{\"slash_commands\":[ask]}" ->
                Obj([slash_commands |-> Arr(<<SlashAsk>>)])
          [] text = "{\"slash_commands\":[help,ask]}" ->
                Obj([slash_commands |-> Arr(<<SlashHelp, SlashAsk>>)])
          [] text = "[search]" -> Arr(<<McpSearch>>)
          [] text = "[search,searchBare]" -> Arr(<<McpSearch, McpSearchBare>>)
          [] text = "[ask]" -> Arr(<<McpAskEmpty>>)
          [] text = "[search,alpha]" -> Arr(<<McpSearch, McpAlpha>>)
          [] text = "{text}" -> ResultText
          [] text = "{image}" -> ResultImage]

\* texts that are no JSON document
NonJsonTexts == {"Not Found", "<html>502</html>"}

\* JSON.parse(text) succeeds
IsJson(text) == text \in DOMAIN JsonTable

\* JSON.parse(text), when it succeeds
JSONParse(text) == JsonTable[text]

---------------------------------------------------------------------------
(* handler.ts: requestAPI *)

\* what the server does with one request: the connection fails (net), or a
\* response with a status and a body text arrives
NetFail == [net |-> TRUE, status |-> 0, body |-> ""]
Http(status, body) == [net |-> FALSE, status |-> status, body |-> body]

\* Response.ok
Ok(status) == status >= 200 /\ status <= 299

\* outcomes of an async call
Return(v) == [tag |-> "return", value |-> v, error |-> Undefined]
Throw(e) == [tag |-> "throw", value |-> Undefined, error |-> e]

\* error objects: name is the class, hasResponse is ('response' in error)
NetworkError == [name |-> "NetworkError", message |-> "Failed to fetch",
                 hasResponse |-> FALSE, status |-> 0]
ResponseError(status, message) ==
    [name |-> "ResponseError", message |-> ToStr(message),
     hasResponse |-> TRUE, status |-> status]
\* reading a property of null: data.message with data === null
TypeErrorNullProp(k) ==
    [name |-> "TypeError",
     message |-> "Cannot read properties of null (reading '" \o k \o "')",
     hasResponse |-> FALSE, status |-> 0]
TypeErrorUndefProp(k) ==
    [name |-> "TypeError",
     message |-> "Cannot read properties of undefined (reading '" \o k \o "')",
     hasResponse |-> FALSE, status |-> 0]
PlainError(message) ==
    [name |-> "Error", message |-> message, hasResponse |-> FALSE, status |-> 0]

\* the error of evaluating v.k when v has no properties
PropError(v, k) == IF v.t = "null" THEN TypeErrorNullProp(k) ELSE TypeErrorUndefProp(k)

\* lines 32-40: the body text, parsed when it is non-empty JSON
ParseBody(text) ==
    IF Len(text) > 0 /\ IsJson(text) THEN JSONParse(text) ELSE Str(text)

\* a plausible slip: the failure of JSON.parse is raised instead of logged
requestAPIStrictParse(resp) ==
    IF resp.net THEN Throw(NetworkError)
    ELSE IF Len(resp.body) > 0 /\ ~IsJson(resp.body)
    THEN Throw([PlainError("Unexpected token") EXCEPT !.name = "SyntaxError"])
    ELSE LET data == ParseBody(resp.body)
         IN IF ~Ok(resp.status)
            THEN IF HasProps(data)
                 THEN Throw(ResponseError(resp.status, Or(Prop(data, "message"), data)))
                 ELSE Throw(PropError(data, "message"))
            ELSE Return(data)

\* lines 17-47
requestAPI(resp) ==
    IF resp.net THEN Throw(NetworkError)
    ELSE LET data == ParseBody(resp.body)
         IN IF ~Ok(resp.status)
            THEN IF HasProps(data)
                 THEN Throw(ResponseError(resp.status, Or(Prop(data, "message"), data)))
                 ELSE Throw(PropError(data, "message"))
            ELSE Return(data)

---------------------------------------------------------------------------
(* handler.ts: checkMcpAvailability and the flag _hasMcp *)

Callers == 1 .. NumCallers

\* what the backend may answer to the probe GET mcp/servers
ProbeResponses ==
    {NetFail}
    \cup {Http(404, b) : b \in {"", "{\"message\":\"boom\"}", "null", "0", "Not Found"}}
    \cup {Http(500, b) : b \in {"", "null"}}
    \cup {Http(200, b) : b \in {"[]", "null", ""}}

NoResp == [net |-> FALSE, status |-> 0, body |-> ""]

\* a caller that has not called yet
ChkIdle ==
    [pc |-> "idle", ret |-> Undefined, requested |-> FALSE, resp |-> NoResp,
     after |-> {}, out |-> [tag |-> "none", value |-> Undefined, error |-> Undefined]]

\* lines 59-85: the boolean that a completed probe writes to _hasMcp and returns
ProbeVerdict(outcome) ==
    IF outcome.tag = "return" THEN TRUE
    ELSE IF outcome.error.name = "ResponseError" /\ outcome.error.status = 404
         THEN FALSE
    ELSE IF outcome.error.name = "NetworkError" THEN TRUE
    ELSE TRUE

\* a plausible slip: the last catch-all branch raises the error again and
\* leaves the flag as it was
ProbeCompletionRethrowing(outcome, flag) ==
    IF outcome.tag = "throw"
       /\ ~(outcome.error.name = "ResponseError" /\ outcome.error.status = 404)
       /\ outcome.error.name # "NetworkError"
    THEN [flag |-> flag, out |-> Throw(outcome.error)]
    ELSE [flag |-> Bool(ProbeVerdict(outcome)),
          out |-> Return(Bool(ProbeVerdict(outcome)))]

\* lines 59-85: how the call completes once the probe has settled: what it
\* leaves in _hasMcp (flag is the value before) and how it ends
ProbeCompletion(outcome, flag) ==
    [flag |-> Bool(ProbeVerdict(outcome)),
     out |-> Return(Bool(ProbeVerdict(outcome)))]

\* callers that have completed their call
Completed == {d \in Callers : chk[d].pc = "done"}

\* lines 54-61: the call starts; a known flag is returned at once, an unknown
\* one sends the probe and suspends at the await
CheckStart(c) ==
    /\ chk[c].pc = "idle"
    /\ IF _hasMcp # Null
       THEN chk' = [chk EXCEPT ![c] = [@ EXCEPT !.pc = "done", !.ret = _hasMcp,
                                                 !.out = Return(_hasMcp),
                                                 !.after = Completed]]
       ELSE chk' = [chk EXCEPT ![c] = [@ EXCEPT !.pc = "await", !.requested = TRUE,
                                                 !.after = Completed]]
    /\ UNCHANGED <<_hasMcp, build, exec, reqIn, reqOut, view, svc, rr>>

\* lines 61-85: the probe request settles and the call resumes
CheckSettle(c) ==
    /\ chk[c].pc = "await"
    /\ \E resp \in ProbeResponses :
         LET completion == ProbeCompletion(requestAPI(resp), _hasMcp)
         IN /\ _hasMcp' = completion.flag
            /\ chk' = [chk EXCEPT ![c] = [@ EXCEPT !.pc = "done", !.resp = resp,
                                                    !.out = completion.out,
                                                    !.ret = completion.out.value]]
    /\ UNCHANGED <<build, exec, reqIn, reqOut, view, svc, rr>>

---------------------------------------------------------------------------
(* requestAPI on its own: every endpoint, status and body text *)

NoOutcome == [tag |-> "none", value |-> Undefined, error |-> Undefined]

EndPoints == {"mcp/servers", "mcp/execute"}

AllBodies == {""} \cup DOMAIN JsonTable \cup NonJsonTexts

AllResponses ==
    {NetFail} \cup {Http(st, b) : st \in {200, 204, 404, 500}, b \in AllBodies}

NoRequest == [endPoint |-> "", resp |-> NoResp]

\* handler.ts lines 17-47, one call from its request to its settlement
RequestAPICall ==
    /\ reqIn # NoRequest
    /\ reqOut = NoOutcome
    /\ reqOut' = requestAPI(reqIn.resp)
    /\ UNCHANGED <<_hasMcp, chk, build, exec, reqIn, view, svc, rr>>

---------------------------------------------------------------------------
(* mcp-service.ts: McpService *)

\* error instanceof Error
IsErrorInstance(e) == e.name \in {"Error", "TypeError", "NetworkError", "ResponseError"}

\* lines 25-29 and 52-56: the 404 test of getServers and getCommands
IsNotFound(e) == IsErrorInstance(e) /\ e.hasResponse /\ e.status = 404

\* lines 15-37: getServers, from the outcome of its requestAPI call
getServers(outcome) ==
    IF outcome.tag = "return"
    THEN Return(IF outcome.value.t = "arr" THEN outcome.value ELSE Arr(<<>>))
    ELSE IF IsNotFound(outcome.error) THEN Throw(PlainError("MCP not available"))
    ELSE Throw(outcome.error)

\* a plausible slip (the other revision of the policy): every failure is
\* answered with an empty list
getCommandsEmptyOnError(outcome) ==
    IF outcome.tag = "return"
    THEN Return(IF outcome.value.t = "arr" THEN outcome.value ELSE Arr(<<>>))
    ELSE Return(Arr(<<>>))

\* lines 42-64: getCommands, from the outcome of its requestAPI call
getCommands(outcome) ==
    IF outcome.tag = "return"
    THEN Return(IF outcome.value.t = "arr" THEN outcome.value ELSE Arr(<<>>))
    ELSE IF IsNotFound(outcome.error) THEN Throw(PlainError("MCP not available"))
    ELSE Throw(outcome.error)

ErrorPrefix == "Error executing command: "

\* a plausible slip: only response errors are turned into a result
executeCommandRethrowing(outcome) ==
    IF outcome.tag = "return" THEN Return(outcome.value)
    ELSE IF outcome.error.name # "ResponseError" THEN Throw(outcome.error)
    ELSE Return(Obj([type |-> Str("text"),
                     content |-> Str(ErrorPrefix \o outcome.error.message)]))

\* lines 94-109: executeCommand, from the outcome of its requestAPI call
executeCommand(outcome) ==
    IF outcome.tag = "return" THEN Return(outcome.value)
    ELSE Return(Obj([type |-> Str("text"),
                     content |-> Str(ErrorPrefix \o
                         (IF IsErrorInstance(outcome.error)
                          THEN outcome.error.message ELSE "Unknown error"))]))

ServerNames == {"search", "alpha", "fs"}
\* the command argument; undefined takes the default ''
CommandArgs == {Undefined, Str("query")}

\* what the backend may answer to POST mcp/execute
ExecResponses ==
    {NetFail}
    \cup {Http(st, b) : st \in {404, 500},
                        b \in {"", "null", "0", "{\"message\":\"boom\"}",
                               "{\"message\":\"\"}", "Not Found"}}
    \cup {Http(200, b) : b \in {"{text}", "{image}", "null", "", "Not Found"}}

\* a third argument a caller may pass; the signature (lines 90-93) has no
\* parameter for it
ExtraArgs == {Undefined, Obj([query |-> Str("tla")])}

ExecIdle ==
    [pc |-> "idle", serverName |-> Undefined, command |-> Undefined,
     args |-> Undefined, endPoint |-> "", method |-> "", sent |-> Undefined,
     resp |-> NoResp, out |-> NoOutcome]

\* lines 97-100: the object that JSON.stringify turns into the request body
ExecuteBody(serverName, command) ==
    Obj([serverName |-> serverName, command |-> command])

\* lines 90-101: the call builds the body and sends the POST
ExecStart ==
    /\ exec.pc = "idle"
    /\ \E serverName \in ServerNames, arg \in CommandArgs, args \in ExtraArgs :
         LET command == IF arg = Undefined THEN Str("") ELSE arg
         IN exec' = [exec EXCEPT !.pc = "await",
                        !.serverName = Str(serverName), !.command = command,
                        !.args = args,
                        !.endPoint = "mcp/execute", !.method = "POST",
                        !.sent = ExecuteBody(Str(serverName), command)]
    /\ UNCHANGED <<_hasMcp, chk, build, reqIn, reqOut, view, svc, rr>>

\* lines 95-109: the request settles
ExecSettle ==
    /\ exec.pc = "await"
    /\ \E resp \in ExecResponses :
         exec' = [exec EXCEPT !.pc = "done", !.resp = resp,
                              !.out = executeCommand(requestAPI(resp))]
    /\ UNCHANGED <<_hasMcp, chk, build, reqIn, reqOut, view, svc, rr>>

---------------------------------------------------------------------------
(* mcp-service.ts: a direct call of getServers or getCommands *)

ServiceOps == {"getServers", "getCommands"}

SvcIdle == [pc |-> "idle", op |-> "", resp |-> NoResp, req |-> NoOutcome,
            out |-> NoOutcome]

\* lines 15-37 and 42-64: the operation op, from the outcome of its requestAPI
ServiceResult(op, outcome) ==
    IF op = "getServers" THEN getServers(outcome) ELSE getCommands(outcome)

\* lines 16-18 and 43-45: the operation sends its GET and suspends
ServiceStart ==
    /\ svc.pc = "idle"
    /\ \E op \in ServiceOps : svc' = [svc EXCEPT !.pc = "await", !.op = op]
    /\ UNCHANGED <<_hasMcp, chk, build, exec, reqIn, reqOut, view, rr>>

\* lines 18-36 and 45-63: the request settles
ServiceSettle ==
    /\ svc.pc = "await"
    /\ \E resp \in AllResponses :
         svc' = [svc EXCEPT !.pc = "done", !.resp = resp,
                            !.req = requestAPI(resp),
                            !.out = ServiceResult(svc.op, requestAPI(resp))]
    /\ UNCHANGED <<_hasMcp, chk, build, exec, reqIn, reqOut, view, rr>>

---------------------------------------------------------------------------
(* slash autocompletion: autocompletion.commands (types/mcp.d.ts 160-197) *)

Builds == 1 .. NumBuilds

\* what the backend may answer to GET chats/slash_commands
StaticResponses ==
    {NetFail, Http(500, "{\"message\":\"boom\"}"), Http(200, "null"),
     Http(200, "{\"slash_commands\":[ask]}"),
     Http(200, "{\"slash_commands\":[help,ask]}")}

\* what the backend may answer to GET mcp/commands
CommandsResponses ==
    {NetFail, Http(404, ""), Http(500, "null"), Http(200, "{}"),
     Http(200, "[search,searchBare]"), Http(200, "[ask]"),
     Http(200, "[search,alpha]")}

\* what the backend may answer to the probe of a catalog build
BuildProbeResponses ==
    {NetFail, Http(404, ""), Http(404, "null"), Http(500, ""), Http(200, "[]")}

\* lines 165-169: one static slash command as an autocomplete option
StandardOption(slashCommand) ==
    [id |-> Prop(slashCommand, "slash_id"),
     label |-> "/" \o ToStr(Prop(slashCommand, "slash_id")) \o " ",
     description |-> Prop(slashCommand, "description")]

\* lines 181-185: one MCP command as an autocomplete option
McpOption(mcpCommand) ==
    [id |-> Prop(mcpCommand, "serverName"),
     label |-> "/" \o ToStr(Prop(mcpCommand, "serverName")) \o " ",
     description |-> Or(Prop(mcpCommand, "description"),
                        Str("MCP Server: " \o ToStr(Prop(mcpCommand, "serverName"))))]

\* Array.prototype.map with a callback that reads properties of each element
\* throws when an element is null or undefined
MapThrows(items) == \E i \in 1 .. Len(items) : ~HasProps(items[i])

\* lines 164-169: the static tier, from the outcome of listSlashCommands()
StandardCommands(outcome) ==
    IF outcome.tag = "throw" THEN outcome
    ELSE IF ~HasProps(outcome.value)
         THEN Throw(PropError(outcome.value, "slash_commands"))
    ELSE LET slashCommands == Prop(outcome.value, "slash_commands")
         IN IF ~HasProps(slashCommands) THEN Throw(PropError(slashCommands, "map"))
            ELSE IF slashCommands.t # "arr"
                 THEN Throw([name |-> "TypeError",
                             message |-> "slashCommands.map is not a function",
                             hasResponse |-> FALSE, status |-> 0])
            ELSE IF MapThrows(slashCommands.items)
                 THEN Throw(TypeErrorNullProp("slash_id"))
            ELSE Return([i \in 1 .. Len(slashCommands.items) |->
                            StandardOption(slashCommands.items[i])])

\* a plausible slip: MCP commands whose id is already listed are dropped
CatalogWithMcpDeduplicating(standardCommands, outcome) ==
    IF outcome.tag = "throw" THEN Return(standardCommands)
    ELSE IF MapThrows(outcome.value.items) THEN Return(standardCommands)
    ELSE LET mcp == [i \in 1 .. Len(outcome.value.items) |->
                        McpOption(outcome.value.items[i])]
             Fresh(i) == /\ \A j \in 1 .. Len(standardCommands) :
                              standardCommands[j].id # mcp[i].id
                         /\ \A j \in 1 .. (i - 1) : mcp[j].id # mcp[i].id
             kept == {i \in 1 .. Len(mcp) : Fresh(i)}
             Nth(n) == CHOOSE i \in kept : Cardinality({k \in kept : k < i}) = n - 1
         IN Return(standardCommands \o [n \in 1 .. Cardinality(kept) |-> mcp[Nth(n)]])

\* a plausible slip: a failure of the MCP fetch escapes the catch
CatalogWithMcpPropagating(standardCommands, outcome) ==
    IF outcome.tag = "throw" THEN outcome
    ELSE Return(standardCommands \o
                [i \in 1 .. Len(outcome.value.items) |->
                    McpOption(outcome.value.items[i])])

\* lines 178-196: the MCP tier, from the outcome of mcpService.getCommands()
CatalogWithMcp(standardCommands, outcome) ==
    IF outcome.tag = "throw" THEN Return(standardCommands)
    ELSE IF MapThrows(outcome.value.items) THEN Return(standardCommands)
    ELSE Return(standardCommands \o
                [i \in 1 .. Len(outcome.value.items) |->
                    McpOption(outcome.value.items[i])])

BuildIdle ==
    [pc |-> "idle", staticResp |-> NoResp, standard |-> <<>>, probed |-> FALSE,
     avail |-> Undefined, mcpRequested |-> FALSE, mcpResp |-> NoResp,
     out |-> NoOutcome, startedEnabled |-> FALSE]

\* a plausible slip: the MCP commands are requested whatever the check says
AfterCheckAlwaysFetching(rec, available) ==
    [rec EXCEPT !.avail = Bool(available), !.pc = "mcp", !.mcpRequested = TRUE]

\* lines 174-191: the build once checkMcpAvailability() has answered:
\* request the MCP commands, or return the static options
AfterCheck(rec, available) ==
    IF available
    THEN [rec EXCEPT !.avail = Bool(TRUE), !.pc = "mcp", !.mcpRequested = TRUE]
    ELSE [rec EXCEPT !.avail = Bool(FALSE), !.pc = "done",
                     !.out = Return(rec.standard)]

\* line 164: the build starts by requesting the static slash commands
BuildStart(b) ==
    /\ build[b].pc = "idle"
    /\ build' = [build EXCEPT ![b] = [@ EXCEPT !.pc = "static",
                                  !.startedEnabled = (_hasMcp = Bool(TRUE))]]
    /\ UNCHANGED <<_hasMcp, chk, exec, reqIn, reqOut, view, svc, rr>>

\* lines 164-174: the static request settles; a failure leaves the build, a
\* success maps the options and calls checkMcpAvailability(), which answers
\* from a known flag or sends the probe
BuildStatic(b) ==
    /\ build[b].pc = "static"
    /\ \E resp \in StaticResponses :
         LET std == StandardCommands(requestAPI(resp))
             rec == [build[b] EXCEPT !.staticResp = resp]
         IN build' = [build EXCEPT ![b] =
               IF std.tag = "throw" THEN [rec EXCEPT !.pc = "done", !.out = std]
               ELSE IF _hasMcp # Null
                    THEN AfterCheck([rec EXCEPT !.standard = std.value], _hasMcp.b)
               ELSE [rec EXCEPT !.standard = std.value, !.pc = "probe",
                                !.probed = TRUE]]
    /\ UNCHANGED <<_hasMcp, chk, exec, reqIn, reqOut, view, svc, rr>>

\* handler.ts lines 61-85 inside the build: the probe settles
BuildProbe(b) ==
    /\ build[b].pc = "probe"
    /\ \E resp \in BuildProbeResponses :
         LET verdict == ProbeVerdict(requestAPI(resp))
         IN /\ _hasMcp' = Bool(verdict)
            /\ build' = [build EXCEPT ![b] = AfterCheck(@, verdict)]
    /\ UNCHANGED <<chk, exec, reqIn, reqOut, view, svc, rr>>

\* lines 178-196: the request for the MCP commands settles
BuildMcp(b) ==
    /\ build[b].pc = "mcp"
    /\ \E resp \in CommandsResponses :
         build' = [build EXCEPT ![b] =
             [@ EXCEPT !.pc = "done", !.mcpResp = resp,
                       !.out = CatalogWithMcp(build[b].standard,
                                              getCommands(requestAPI(resp)))]]
    /\ UNCHANGED <<_hasMcp, chk, exec, reqIn, reqOut, view, svc, rr>>

---------------------------------------------------------------------------
(* McpSettings, the retrying variant (unnamed/part_000 lines 24-72) *)

\* line 49: retries are meant to stop at this retryCount
RetryLimit == 3

LoadingMessage == "Loading MCP servers, please wait..."
FailedMessage == "Failed to load MCP servers. Make sure MCP servers are properly configured and restart JupyterLab if needed."

\* what the backend may answer to GET mcp/servers of the view
ServersResponses ==
    {NetFail, Http(404, ""), Http(500, "{\"message\":\"boom\"}"),
     Http(200, "[]"), Http(200, "[search]"), Http(200, "{}")}

\* lines 25-28 and the first render: the hook state, and the effect not yet run.
\* captured is the retryCount that the closure fetchServers reads: the effect
\* has no dependencies, so it runs once and keeps the first render's value.
ViewInit ==
    [mounted |-> TRUE, effect |-> "pending",
     servers |-> <<>>, isLoading |-> TRUE, error |-> Null, retryCount |-> 0,
     captured |-> 0,
     timer |-> "none", retryTimer |-> "none", inflight |-> 0,
     attempts |-> 0, failures |-> 0, succeeded |-> FALSE,
     tornDownWithRetryPending |-> FALSE,
     lateFetch |-> FALSE, lateUpdate |-> FALSE, okResp |-> NoResp]

\* lines 30-32 and 67-69: the effect runs after the first render and arms the
\* initial timer
ViewEffect ==
    /\ view.mounted /\ view.effect = "pending"
    /\ view' = [view EXCEPT !.effect = "ran", !.captured = view.retryCount,
                            !.timer = "armed"]
    /\ UNCHANGED <<_hasMcp, chk, build, exec, reqIn, reqOut, svc, rr>>

\* a plausible slip: fetchServers does not reset the error message
FetchBeginKeepingError(v) ==
    [v EXCEPT !.isLoading = IF v.captured = 0 THEN TRUE ELSE v.isLoading,
              !.inflight = v.inflight + 1,
              !.attempts = v.attempts + 1,
              !.lateFetch = v.lateFetch \/ ~v.mounted,
              !.lateUpdate = v.lateUpdate \/ ~v.mounted]

\* lines 35-42: fetchServers up to its await
FetchBegin(v) ==
    [v EXCEPT !.isLoading = IF v.captured = 0 THEN TRUE ELSE v.isLoading,
              !.error = Null,
              !.inflight = v.inflight + 1,
              !.attempts = v.attempts + 1,
              !.lateFetch = v.lateFetch \/ ~v.mounted,
              !.lateUpdate = v.lateUpdate \/ ~v.mounted]

\* lines 67-69: the initial timer fires and calls fetchServers
ViewTimerFires ==
    /\ view.timer = "armed"
    /\ view' = FetchBegin([view EXCEPT !.timer = "fired"])
    /\ UNCHANGED <<_hasMcp, chk, build, exec, reqIn, reqOut, svc, rr>>

\* lines 51-53: a retry timer fires and calls fetchServers
ViewRetryFires ==
    /\ view.retryTimer = "armed"
    /\ view.attempts < MaxAttempts
    /\ view' = FetchBegin([view EXCEPT !.retryTimer = "none"])
    /\ UNCHANGED <<_hasMcp, chk, build, exec, reqIn, reqOut, svc, rr>>

\* lines 42-63: getServers settles; success stores the list, failure retries
\* while the captured retryCount is below RetryLimit
ViewFetchSettles ==
    /\ view.inflight > 0
    /\ \E resp \in ServersResponses :
         LET outcome == getServers(requestAPI(resp))
             late == view.lateUpdate \/ ~view.mounted
         IN view' =
              IF outcome.tag = "return"
              THEN [view EXCEPT !.inflight = @ - 1, !.servers = outcome.value.items,
                                !.succeeded = TRUE, !.isLoading = FALSE,
                                !.okResp = resp, !.lateUpdate = late]
              ELSE IF view.captured < RetryLimit
              THEN [view EXCEPT !.inflight = @ - 1, !.failures = @ + 1,
                                !.retryCount = @ + 1, !.retryTimer = "armed",
                                !.error = Str(LoadingMessage),
                                !.isLoading = FALSE, !.lateUpdate = late]
              ELSE [view EXCEPT !.inflight = @ - 1, !.failures = @ + 1,
                                !.error = Str(FailedMessage),
                                !.isLoading = FALSE, !.lateUpdate = late]
    /\ UNCHANGED <<_hasMcp, chk, build, exec, reqIn, reqOut, svc, rr>>

\* line 71: the component unmounts and the effect's cleanup clears the
\* initial timer, the only handle it holds
ViewTeardown ==
    /\ view.mounted
    /\ view' = [view EXCEPT !.mounted = FALSE,
                            !.timer = IF @ = "armed" THEN "cleared" ELSE @,
                            !.tornDownWithRetryPending = (view.retryTimer = "armed")]
    /\ UNCHANGED <<_hasMcp, chk, build, exec, reqIn, reqOut, svc, rr>>

---------------------------------------------------------------------------
(* mcp-result.tsx: messages, extractMcpResult and McpResult *)

\* { ...f, ...g }
Spread(f, g) ==
    [k \in DOMAIN f \cup DOMAIN g |-> IF k \in DOMAIN g THEN g[k] ELSE f[k]]

\* the property k: v of an object literal, left out when v is undefined
Field(k, v) == IF v = Undefined THEN <<>> ELSE [x \in {k} |-> v]

\* v?.k
OptProp(v, k) == IF HasProps(v) THEN Prop(v, k) ELSE Undefined

\* the metadata.mcp_result objects a chat message may carry
McpResultMetas ==
    {Obj(Spread(Spread(Field("type", ty), Field("metadata", md)),
                Spread(Field("server", sv),
                       Field("command", IF sv = Undefined THEN Undefined
                                        ELSE Str("query"))))) :
        ty \in {Undefined, Str("text"), Str("image"), Str("resource"), Str("chart")},
        md \in {Undefined, Obj([mimeType |-> Str("image/png")]),
                Obj([mimeType |-> Str("image/jpeg")]),
                Obj([uri |-> Str("file:///notes.txt")])},
        sv \in {Undefined, Str("alpha")}}

\* the chat messages of the model: with an MCP result, and without
Messages ==
    {Obj([body |-> body, metadata |-> Obj([mcp_result |-> mr])]) :
        body \in {Str(""), Str("aGVsbG8=")}, mr \in McpResultMetas}
    \cup {Obj([body |-> Str("hello")]),
          Obj([body |-> Str("hello"), metadata |-> Obj([other |-> Num(1)])])}

\* lines 166-168: hasMcpResult, as the conditions !hasMcpResult(...) read it
hasMcpResult(message) ==
    /\ Truthy(message)
    /\ Truthy(Prop(message, "metadata"))
    /\ Truthy(Prop(Prop(message, "metadata"), "mcp_result"))

\* a plausible slip: mimeType is read one level too high
extractMcpResultOuterMime(message) ==
    IF ~hasMcpResult(message) THEN Null
    ELSE LET metadata == Prop(Prop(message, "metadata"), "mcp_result")
         IN Obj([type |-> Or(Prop(metadata, "type"), Str("text")),
                 content |-> Prop(message, "body"),
                 mimeType |-> Prop(metadata, "mimeType"),
                 metadata |-> Prop(metadata, "metadata")])

\* lines 173-185
extractMcpResult(message) ==
    IF ~hasMcpResult(message) THEN Null
    ELSE LET metadata == Prop(Prop(message, "metadata"), "mcp_result")
         IN Obj([type |-> Or(Prop(metadata, "type"), Str("text")),
                 content |-> Prop(message, "body"),
                 mimeType |-> OptProp(Prop(metadata, "metadata"), "mimeType"),
                 metadata |-> Prop(metadata, "metadata")])

\* what renderContent puts on screen: the branch taken and what it shows
Shown(branch, text, src, caption, dump) ==
    [branch |-> branch, text |-> text, src |-> src, caption |-> caption,
     dump |-> dump]

NoShown == Shown("none", Undefined, "", Undefined, Undefined)

\* the fields of an object value, none for undefined or null ((x || {}))
FieldsOf(v) == IF v.t = "obj" THEN v.fields ELSE <<>>

\* a plausible slip: the image branch is taken on the type alone
renderContentTypeOnly(result, metadata) ==
    LET resultType == Prop(result, "type")
        resultMetadata == Obj(Spread(FieldsOf(metadata),
                                     FieldsOf(Prop(result, "metadata"))))
    IN IF resultType = Str("text")
       THEN Shown("text", Prop(result, "content"), "", Undefined, Undefined)
       ELSE IF resultType = Str("image")
       THEN Shown("image", Undefined,
                  "data:" \o ToStr(Or(Prop(result, "mimeType"), Str("image/png")))
                    \o ";base64," \o ToStr(Prop(result, "content")),
                  Undefined, Undefined)
       ELSE IF resultType = Str("resource")
       THEN Shown("resource", Prop(result, "content"), "",
                  Or(Prop(resultMetadata, "uri"), Str("Resource")), Undefined)
       ELSE Shown("dump", Undefined, "", Undefined, result)

\* lines 31-34 and 72-147: McpResult's renderContent, for the props result
\* and metadata
renderContent(result, metadata) ==
    LET resultType == Prop(result, "type")
        resultMetadata == Obj(Spread(FieldsOf(metadata),
                                     FieldsOf(Prop(result, "metadata"))))
    IN IF resultType = Str("text")
       THEN Shown("text", Prop(result, "content"), "", Undefined, Undefined)
       ELSE IF resultType = Str("image") /\ Truthy(Prop(result, "content"))
       THEN Shown("image", Undefined,
                  "data:" \o ToStr(Or(Prop(result, "mimeType"), Str("image/png")))
                    \o ";base64," \o ToStr(Prop(result, "content")),
                  Undefined, Undefined)
       ELSE IF resultType = Str("resource")
       THEN Shown("resource", Prop(result, "content"), "",
                  Or(Prop(resultMetadata, "uri"), Str("Resource")), Undefined)
       ELSE Shown("dump", Undefined, "", Undefined, result)

\* unnamed/part_000 lines 350-399: the earlier McpResult, for the prop result
McpResultEarlier(result) ==
    IF Prop(result, "type") = Str("text")
    THEN Shown("text", Prop(result, "content"), "", Undefined, Undefined)
    ELSE IF Prop(result, "type") = Str("image") /\ Truthy(Prop(result, "content"))
    THEN Shown("image", Undefined,
               "data:" \o ToStr(Or(Prop(result, "mimeType"), Str("image/png")))
                 \o ";base64," \o ToStr(Prop(result, "content")),
               Undefined, Undefined)
    ELSE IF Prop(result, "type") = Str("resource")
    THEN Shown("resource", Prop(result, "content"), "",
               Or(OptProp(Prop(result, "metadata"), "uri"), Str("Resource")),
               Undefined)
    ELSE Shown("dump", Undefined, "", Undefined, result)

RrIdle ==
    [pc |-> "idle", message |-> Undefined, result |-> Undefined,
     shown |-> NoShown, earlier |-> NoShown]

\* lines 173-185, and 190-200 of renderMcpResult: the result is taken out of
\* the message
Extract ==
    /\ rr.pc = "message"
    /\ rr' = [rr EXCEPT !.pc = "extracted", !.result = extractMcpResult(rr.message)]
    /\ UNCHANGED <<_hasMcp, chk, build, exec, reqIn, reqOut, view, svc>>

\* lines 198-209: renderMcpResult renders the extracted result, if there is
\* one, with the message's inner metadata as the metadata prop
Render ==
    /\ rr.pc = "extracted"
    /\ rr.result # Null
    /\ rr' = [rr EXCEPT
                !.pc = "rendered",
                !.shown = renderContent(rr.result,
                     Prop(Prop(Prop(rr.message, "metadata"), "mcp_result"),
                          "metadata")),
                !.earlier = McpResultEarlier(rr.result)]
    /\ UNCHANGED <<_hasMcp, chk, build, exec, reqIn, reqOut, view, svc>>

---------------------------------------------------------------------------
(* Specifications *)

\* the state after the modules are loaded: nothing called, nothing mounted
Quiet ==
    /\ _hasMcp = Null
    /\ chk = [c \in Callers |-> ChkIdle]
    /\ build = [b \in Builds |-> BuildIdle]
    /\ exec = ExecIdle
    /\ reqIn = NoRequest
    /\ reqOut = NoOutcome
    /\ view = [ViewInit EXCEPT !.mounted = FALSE]
    /\ svc = SvcIdle
    /\ rr = RrIdle

\* concurrent calls of checkMcpAvailability()
InitAvail == Quiet
NextAvail == \E c \in Callers : CheckStart(c) \/ CheckSettle(c)
SpecAvail == InitAvail /\ [][NextAvail]_vars

\* concurrent runs of autocompletion.commands()
InitCatalog == Quiet
NextCatalog ==
    \E b \in Builds : BuildStart(b) \/ BuildStatic(b) \/ BuildProbe(b) \/ BuildMcp(b)
SpecCatalog == InitCatalog /\ [][NextCatalog]_vars

\* one run of executeCommand
InitExec == Quiet
NextExec == ExecStart \/ ExecSettle
SpecExec == InitExec /\ [][NextExec]_vars

\* one call of requestAPI, for every endpoint and server answer
InitReq ==
    /\ _hasMcp = Null
    /\ chk = [c \in Callers |-> ChkIdle]
    /\ build = [b \in Builds |-> BuildIdle]
    /\ exec = ExecIdle
    /\ reqIn \in [endPoint : EndPoints, resp : AllResponses]
    /\ reqOut = NoOutcome
    /\ view = [ViewInit EXCEPT !.mounted = FALSE]
    /\ svc = SvcIdle
    /\ rr = RrIdle
NextReq == RequestAPICall
SpecReq == InitReq /\ [][NextReq]_vars

\* one direct call of getServers or getCommands
InitService == Quiet
NextService == ServiceStart \/ ServiceSettle
SpecService == InitService /\ [][NextService]_vars

\* the catalog builds next to one other caller of checkMcpAvailability
InitShared == Quiet
NextShared ==
    \/ NextCatalog
    \/ CheckStart(1)
    \/ CheckSettle(1)
SpecShared == InitShared /\ [][NextShared]_vars

\* one chat message, extracted and rendered
InitResult ==
    /\ _hasMcp = Null
    /\ chk = [c \in Callers |-> ChkIdle]
    /\ build = [b \in Builds |-> BuildIdle]
    /\ exec = ExecIdle
    /\ reqIn = NoRequest
    /\ reqOut = NoOutcome
    /\ view = [ViewInit EXCEPT !.mounted = FALSE]
    /\ svc = SvcIdle
    /\ rr \in {[RrIdle EXCEPT !.pc = "message", !.message = m] : m \in Messages}
NextResult == Extract \/ Render
SpecResult == InitResult /\ [][NextResult]_vars

\* one mount of the McpSettings view
InitView ==
    /\ _hasMcp = Null
    /\ chk = [c \in Callers |-> ChkIdle]
    /\ build = [b \in Builds |-> BuildIdle]
    /\ exec = ExecIdle
    /\ reqIn = NoRequest
    /\ reqOut = NoOutcome
    /\ view = ViewInit
    /\ svc = SvcIdle
    /\ rr = RrIdle
NextView ==
    \/ ViewEffect
    \/ ViewTimerFires
    \/ ViewRetryFires
    \/ ViewFetchSettles
    \/ ViewTeardown
SpecView == InitView /\ [][NextView]_vars

---------------------------------------------------------------------------
(* Claims about checkMcpAvailability (SpecAvail) *)

\* caller c has completed a call that sent the probe and received resp
Probed(c) == chk[c].pc = "done" /\ chk[c].requested

\* caller d called after caller c had completed, and has completed itself
LaterCall(c, d) == chk[d].pc = "done" /\ c \in chk[d].after

\* C1: a call whose probe is answered 404, whatever the body, returns false,
\* and every call made after it returns false without sending a request.
C1_NotFoundDisables ==
    \A c \in Callers :
        (Probed(c) /\ ~chk[c].resp.net /\ chk[c].resp.status = 404)
        => /\ chk[c].ret = Bool(FALSE)
           /\ \A d \in Callers :
                LaterCall(c, d) => chk[d].ret = Bool(FALSE) /\ ~chk[d].requested

\* C2: a call whose probe ends in anything but a 404 response returns true,
\* and every call made after it returns true without sending a request.
C2_OtherOutcomesEnable ==
    \A c \in Callers :
        (Probed(c) /\ (chk[c].resp.net \/ chk[c].resp.status # 404))
        => /\ chk[c].ret = Bool(TRUE)
           /\ \A d \in Callers :
                LaterCall(c, d) => chk[d].ret = Bool(TRUE) /\ ~chk[d].requested

\* C3: once _hasMcp is known it never changes again, in every interleaving
\* of the calls and whatever the backend answers to each probe.
C3_FlagSetOnce == [][_hasMcp # Null => _hasMcp' = _hasMcp]_vars

---------------------------------------------------------------------------
(* Claims about the McpSettings view (SpecView) *)

\* C4: when every fetch fails the view makes 4 attempts in all (the first and
\* RetryLimit retries), then shows the terminal message and schedules nothing.
C4_FourAttemptsThenTerminal ==
    ~view.succeeded
    => /\ view.attempts <= RetryLimit + 1
       /\ view.failures = RetryLimit + 1
          => view.error = Str(FailedMessage) /\ view.retryTimer # "armed"

\* C5: a teardown that finds a retry scheduled cancels it: afterwards no
\* fetch is sent and no state setter is called.
C5_TeardownCancelsRetry ==
    view.tornDownWithRetryPending => ~view.lateFetch /\ ~view.lateUpdate

---------------------------------------------------------------------------
(* Claims about executeCommand (SpecExec) *)

\* the transport failed: no connection, or a status outside 200..299
Failed(resp) == resp.net \/ ~Ok(resp.status)

\* C6: executeCommand always returns, and after any transport failure what
\* it returns has type 'text' and content starting "Error executing command: ".
C6_ExecuteNeverThrows ==
    exec.pc = "done"
    => /\ exec.out.tag = "return"
       /\ Failed(exec.resp)
          => /\ exec.out.value.t = "obj"
             /\ Prop(exec.out.value, "type") = Str("text")
             /\ Prop(exec.out.value, "content").t = "str"
             /\ StartsWith(Prop(exec.out.value, "content").s,
                           "Error executing command: ")

\* a run whose connection failed has ended with a result
C6_Witness ==
    /\ exec.pc = "done" /\ exec.resp.net
    /\ exec.out.tag = "return"
    /\ Prop(exec.out.value, "content") =
           Str("Error executing command: Failed to fetch")

---------------------------------------------------------------------------
(* Claims about requestAPI (SpecReq) *)

\* C10: requestAPI throws a NetworkError when the connection fails, a
\* ResponseError carrying the status for every non-success status and every
\* body, and no other kind of error; it never returns on such a failure.
C10_OnlyNetworkOrResponseError ==
    reqOut # NoOutcome
    => /\ reqIn.resp.net
          => reqOut.tag = "throw" /\ reqOut.error.name = "NetworkError"
       /\ (~reqIn.resp.net /\ ~Ok(reqIn.resp.status))
          => /\ reqOut.tag = "throw"
             /\ reqOut.error.name = "ResponseError"
             /\ reqOut.error.status = reqIn.resp.status
       /\ reqOut.tag = "throw"
          => reqOut.error.name \in {"NetworkError", "ResponseError"}

---------------------------------------------------------------------------
(* Claims about the catalog builder (SpecCatalog) *)

\* the backend answered the static request with a list of slash commands
StaticListed(b) ==
    /\ ~Failed(build[b].staticResp)
    /\ IsJson(build[b].staticResp.body)
    /\ JSONParse(build[b].staticResp.body).t = "obj"
    /\ Prop(JSONParse(build[b].staticResp.body), "slash_commands").t = "arr"

\* the slash commands the backend listed for build b
StaticItems(b) == Prop(JSONParse(build[b].staticResp.body), "slash_commands").items

\* the MCP commands the backend listed for build b (a body that is no array
\* lists none)
McpItems(b) ==
    LET data == ParseBody(build[b].mcpResp.body)
    IN IF data.t = "arr" THEN data.items ELSE <<>>

\* entries 1..Len(StaticItems(b)) of catalog are the static commands, in order
StaticPart(b, catalog) ==
    /\ Len(catalog) >= Len(StaticItems(b))
    /\ \A i \in 1 .. Len(StaticItems(b)) :
         /\ catalog[i].id = StaticItems(b)[i].fields.slash_id
         /\ catalog[i].label = "/" \o StaticItems(b)[i].fields.slash_id.s \o " "

\* the entries after the static ones are the MCP commands, in order
McpPart(b, catalog) ==
    \A j \in 1 .. Len(McpItems(b)) :
        LET cmd == McpItems(b)[j].fields
            entry == catalog[Len(StaticItems(b)) + j]
        IN /\ entry.id = cmd.serverName
           /\ entry.label = "/" \o cmd.serverName.s \o " "
           /\ "description" \notin DOMAIN cmd
              => entry.description = Str("MCP Server: " \o cmd.serverName.s)
           /\ ("description" \in DOMAIN cmd /\ cmd.description # Str(""))
              => entry.description = cmd.description

\* C7: a build for which checkMcpAvailability() answered false returns
\* exactly the static commands (id = slash_id, label = "/" + slash_id + " ",
\* in received order) and sends no request to mcp/commands.
C7_UnavailableStaticOnly ==
    \A b \in Builds :
        (build[b].pc = "done" /\ build[b].avail = Bool(FALSE))
        => /\ ~build[b].mcpRequested
           /\ build[b].out.tag = "return"
           /\ Len(build[b].out.value) = Len(StaticItems(b))
           /\ StaticPart(b, build[b].out.value)

\* a build found MCP unavailable and returned its two static commands
C7_Witness ==
    \E b \in Builds :
        /\ build[b].pc = "done" /\ build[b].avail = Bool(FALSE)
        /\ ~build[b].mcpRequested
        /\ build[b].out.tag = "return"
        /\ Len(build[b].out.value) = 2
        /\ build[b].out.value[1].label = "/help "

\* C8: with MCP available and the MCP fetch successful the catalog is the
\* static entries followed by one entry per MCP command, each group in
\* received order, nothing re-sorted or dropped: its length is the number of
\* static commands plus the number of MCP commands.
C8_StaticThenMcp ==
    \A b \in Builds :
        (build[b].pc = "done" /\ build[b].mcpRequested /\ ~Failed(build[b].mcpResp))
        => /\ build[b].out.tag = "return"
           /\ Len(build[b].out.value) = Len(StaticItems(b)) + Len(McpItems(b))
           /\ StaticPart(b, build[b].out.value)
           /\ McpPart(b, build[b].out.value)

\* a build has returned a catalog in which two MCP entries share a serverName,
\* and another one in which an MCP entry has the id of a static entry
C8_Witness ==
    /\ \E b \in Builds :
         /\ build[b].pc = "done" /\ build[b].mcpResp = Http(200, "[search,searchBare]")
         /\ Len(build[b].out.value) = Len(StaticItems(b)) + 2
         /\ build[b].out.value[Len(StaticItems(b)) + 1].id =
                build[b].out.value[Len(StaticItems(b)) + 2].id
    /\ \E b \in Builds :
         /\ build[b].pc = "done" /\ build[b].mcpResp = Http(200, "[ask]")
         /\ \E i \in 1 .. Len(StaticItems(b)) :
              build[b].out.value[i].id = build[b].out.value[Len(StaticItems(b)) + 1].id

---------------------------------------------------------------------------
(* Claims about getServers and getCommands (SpecService) *)

\* C11: getServers and getCommands follow one policy: a failure that carries
\* a 404 response becomes the error "MCP not available", any other failure
\* is raised again unchanged, and no failure is answered with a list.
C11_OneFailurePolicy ==
    (svc.pc = "done" /\ svc.req.tag = "throw")
    => /\ svc.out.tag = "throw"
       /\ (svc.req.error.hasResponse /\ svc.req.error.status = 404)
          => svc.out.error = PlainError("MCP not available")
       /\ ~(svc.req.error.hasResponse /\ svc.req.error.status = 404)
          => svc.out.error = svc.req.error

\* getCommands has raised "MCP not available" on a 404
C11_Witness ==
    /\ svc.pc = "done" /\ svc.op = "getCommands"
    /\ svc.resp = Http(404, "Not Found")
    /\ svc.out = Throw(PlainError("MCP not available"))

---------------------------------------------------------------------------
(* Claim about the request of executeCommand (SpecExec) *)

\* C12: executeCommand(serverName, command, args?) sends a POST to
\* mcp/execute whose body carries serverName, command and, when the caller
\* supplies arguments, those args.
C12_BodyCarriesArgs ==
    exec.pc # "idle"
    => /\ exec.endPoint = "mcp/execute" /\ exec.method = "POST"
       /\ Prop(exec.sent, "serverName") = exec.serverName
       /\ Prop(exec.sent, "command") = exec.command
       /\ exec.args # Undefined => Prop(exec.sent, "args") = exec.args

---------------------------------------------------------------------------
(* Claim about how checkMcpAvailability completes (SpecAvail) *)

\* C16: checkMcpAvailability never raises: whatever the probe's outcome, a
\* completed call has returned a boolean, and _hasMcp is known (not null)
\* once a call has completed.
C16_NeverRaises ==
    \A c \in Callers :
        chk[c].pc = "done"
        => /\ chk[c].out.tag = "return"
           /\ chk[c].out.value \in {Bool(TRUE), Bool(FALSE)}
           /\ _hasMcp \in {Bool(TRUE), Bool(FALSE)}

\* a call whose probe ended in the TypeError of a null body has returned true
C16_Witness ==
    \E c \in Callers :
        /\ chk[c].pc = "done"
        /\ chk[c].resp = Http(404, "null")
        /\ chk[c].out = Return(Bool(TRUE))
        /\ _hasMcp # Null

---------------------------------------------------------------------------
(* Claim about who writes _hasMcp (SpecShared) *)

\* a step in which some checkMcpAvailability probe settles
ProbeSettles ==
    \/ \E b \in Builds : build[b].pc = "probe" /\ build'[b].pc # "probe"
    \/ \E c \in Callers : chk[c].pc = "await" /\ chk'[c].pc = "done"

\* builds that started when the flag was true, fetched the static list and
\* have completed
LaterBuilds ==
    {b \in Builds : /\ build[b].pc = "done"
                    /\ build[b].startedEnabled
                    /\ StandardCommands(requestAPI(build[b].staticResp)).tag = "return"}

\* C17: only checkMcpAvailability writes _hasMcp, a failed request for the
\* MCP commands (a 404 included) leaves it unchanged, and so every catalog
\* build that starts once true is cached requests mcp/commands again, even
\* if all earlier requests were answered 404.
C17_OnlyProbeWritesFlag ==
    [][/\ _hasMcp' # _hasMcp => ProbeSettles
       /\ \A b \in LaterBuilds' : build'[b].mcpRequested]_vars

---------------------------------------------------------------------------
(* Claim about the fetches of one mount of McpSettings (SpecView) *)

\* C18: in one mount of the retrying McpSettings view at most one fetch of
\* the server list is in flight at any time; once an attempt has succeeded
\* no further fetch is issued, and the view shows the list that attempt
\* fetched, no error message and isLoading = false.
C18_OneFetchThenRest ==
    [][/\ view'.inflight <= 1
       /\ view.succeeded => view'.attempts = view.attempts
       /\ view'.succeeded
          => /\ view'.inflight = 0
             /\ view'.retryTimer # "armed" /\ view'.timer # "armed"
             /\ view'.servers = getServers(requestAPI(view'.okResp)).value.items
             /\ view'.error = Null
             /\ view'.isLoading = FALSE]_vars

\* a fetch has succeeded after two failed attempts and the list is shown
C18_Witness ==
    /\ view.succeeded
    /\ view.failures = 2 /\ view.attempts = 3
    /\ view.okResp = Http(200, "[search]")
    /\ Len(view.servers) = 1
    /\ view.error = Null /\ ~view.isLoading

---------------------------------------------------------------------------
(* Claim about unparseable bodies in requestAPI (SpecReq) *)

\* C15: requestAPI tolerates a non-empty body that is not valid JSON: on a
\* successful response it returns the raw text, and on a non-success
\* response it raises the ResponseError of that status with the raw text as
\* its message, never a parse error.
C15_UnparseableBodyTolerated ==
    (/\ reqOut # NoOutcome
     /\ ~reqIn.resp.net
     /\ reqIn.resp.body \in NonJsonTexts)
    => /\ Ok(reqIn.resp.status) => reqOut = Return(Str(reqIn.resp.body))
       /\ ~Ok(reqIn.resp.status)
          => reqOut = Throw(ResponseError(reqIn.resp.status, Str(reqIn.resp.body)))

\* a 404 with the body "Not Found" has raised the ResponseError with that text
C15_Witness ==
    /\ reqIn.resp = Http(404, "Not Found")
    /\ reqOut.tag = "throw"
    /\ reqOut.error.name = "ResponseError"
    /\ reqOut.error.message = "Not Found"

---------------------------------------------------------------------------
(* Claims about McpResult and extractMcpResult (SpecResult) *)

\* the display branch a type alone would select
BranchOfType(type) ==
    IF type = Str("text") THEN "text"
    ELSE IF type = Str("image") THEN "image"
    ELSE IF type = Str("resource") THEN "resource"
    ELSE "dump"

\* C13 as stated: the display branch is chosen purely from the result's
\* type: text renders as text, image as an image, resource as a resource
\* block and every other type as the raw dump, whatever the content,
\* mimeType or metadata.
C13_BranchFromTypeOnly ==
    rr.pc = "rendered"
    => /\ rr.shown.branch = BranchOfType(Prop(rr.result, "type"))
       /\ rr.earlier.branch = BranchOfType(Prop(rr.result, "type"))

\* C13 amended: the branch is chosen from the type and, for images, from
\* whether the content is empty: text renders as text, an image with
\* non-empty content as an image, resource as a resource block, and an image
\* with empty content and every other type as the raw dump of the whole
\* result; mimeType and metadata never change the branch.
C13_BranchFromTypeAndImageContent ==
    rr.pc = "rendered"
    => LET type == Prop(rr.result, "type")
           expected == IF type = Str("image") /\ Prop(rr.result, "content") = Str("")
                       THEN "dump" ELSE BranchOfType(type)
       IN /\ rr.shown.branch = expected
          /\ rr.earlier.branch = expected
          /\ expected = "dump" => /\ rr.shown.dump = rr.result
                                  /\ rr.earlier.dump = rr.result

\* an image result with empty content has been rendered as the raw dump
C13_Witness ==
    /\ rr.pc = "rendered"
    /\ Prop(rr.result, "type") = Str("image")
    /\ Prop(rr.result, "content") = Str("")
    /\ Prop(rr.result, "mimeType") = Str("image/png")
    /\ rr.shown.branch = "dump"

\* C14: a message with body c whose metadata.mcp_result has type 'image' and
\* metadata.mimeType m is extracted to a result of type 'image' with content
\* c and mimeType m.
C14_ImageRoundTrip ==
    LET packed == Prop(Prop(rr.message, "metadata"), "mcp_result")
    IN (/\ rr.pc \in {"extracted", "rendered"}
        /\ Prop(packed, "type") = Str("image")
        /\ Prop(Prop(packed, "metadata"), "mimeType") # Undefined)
       => /\ Prop(rr.result, "type") = Str("image")
          /\ Prop(rr.result, "content") = Prop(rr.message, "body")
          /\ Prop(rr.result, "mimeType") = Prop(Prop(packed, "metadata"), "mimeType")

\* a packed jpeg image has been extracted with its content and mimeType
C14_Witness ==
    /\ rr.pc = "extracted"
    /\ Prop(rr.message, "body") = Str("aGVsbG8=")
    /\ rr.result.t = "obj"
    /\ Prop(rr.result, "type") = Str("image")
    /\ Prop(rr.result, "content") = Str("aGVsbG8=")
    /\ Prop(rr.result, "mimeType") = Str("image/jpeg")

====
